---- MODULE Spec2Model ----
(***************************************************************************)
(* Model of the collection accumulators (agg/collect.rs) and of the        *)
(* broadcast semi/anti/existence joiner (joins/bhj/semi_join.rs).          *)
(*                                                                         *)
(* Bytes are integers, a byte buffer is a sequence of bytes.  A usize      *)
(* counter is kept as the integer it holds modulo 2^64, written as its     *)
(* signed residue: a negative value of mem_used stands for the wrapped     *)
(* value 2^64 + mem_used of a build without overflow checks.               *)
(***************************************************************************)
EXTENDS Integers, Sequences, FiniteSets, TLC

\* ------------------------------------------------------------- bounds
\* slots of one accumulator column
MaxSlots == 2
\* values (or delivered rows) the columns hold at a time
MaxVals == 3
\* rows of one batch of partial_update
MaxBatch == 2
\* records written to the stream in one run
MaxRecs == 2
\* how far a running counter may be from the sum it tracks before the run stops
MaxDrift == 8
\* rows of the build side of a join
MaxBuild == 2
\* rows of one probed batch
MaxRows == 2
\* batches probed in one run
MaxBatches == 2
\* rows of one probed batch while the consumer may go away
MaxSendRows == 1

\* ------------------------------------------------------------- helpers
Max(a, b) == IF a >= b THEN a ELSE b

Range(s) == {s[i] : i \in DOMAIN s}

RECURSIVE SumSeq(_)
SumSeq(s) == IF s = <<>> THEN 0 ELSE Head(s) + SumSeq(Tail(s))

\* all orders in which the indices 1..n can be visited
Perms(n) ==
    {p \in [1..n -> 1..n] : \A i, j \in 1..n : i # j => p[i] # p[j]}

\* ------------------------------------------------------------- scalars
\* A scalar is a (possibly empty) byte string; Null is the null scalar.
Null == <<-1>>
Scalars == {<<>>, <<1>>}
Inputs == Scalars \cup {Null}

\* write_scalar(value, nullable = false, w): length-prefixed encoding
write_scalar(value, w) == w \o <<Len(value)>> \o value

\* read_scalar(r, dt, nullable = false) at position pos (0-based) of buffer r
read_scalar(r, pos) ==
    IF pos >= Len(r) THEN [ok |-> FALSE, value |-> <<>>, pos |-> pos]
    ELSE LET n == r[pos + 1] IN
         IF n < 0 \/ pos + 1 + n > Len(r)
         THEN [ok |-> FALSE, value |-> <<>>, pos |-> pos]
         ELSE [ok |-> TRUE, value |-> SubSeq(r, pos + 2, pos + 1 + n),
               pos |-> pos + 1 + n]

\* write_len(len, w): one byte for the lengths of the model
write_len(len, w) == w \o <<len>>

\* read_len(r) at position pos
read_len(r, pos) ==
    IF pos >= Len(r) \/ r[pos + 1] < 0
    THEN [ok |-> FALSE, len |-> 0, pos |-> pos]
    ELSE [ok |-> TRUE, len |-> r[pos + 1], pos |-> pos + 1]

\* read_bytes_slice(r, len) at position pos
read_bytes_slice(r, pos, len) ==
    IF pos + len > Len(r) THEN [ok |-> FALSE, bytes |-> <<>>, pos |-> pos]
    ELSE [ok |-> TRUE, bytes |-> SubSeq(r, pos + 1, pos + len), pos |-> pos + len]

\* ------------------------------------------------------------- Vec<u8>
\* capacity of a Vec<u8> holding len bytes after reserving `additional` more
VecReserve(cap, len, additional) ==
    IF cap - len >= additional THEN cap
    ELSE Max(Max(2 * cap, len + additional), 8)

\* ------------------------------------------------------------- AccList
\* struct AccList { raw: Vec<u8> }: the bytes and the capacity of raw
AccList_default == [raw |-> <<>>, cap |-> 0]

AccList_mem_size(l) == l.cap

\* Vec::extend / Write::write_all of bytes onto raw
AccList_extend(l, bytes) ==
    [raw |-> l.raw \o bytes, cap |-> VecReserve(l.cap, Len(l.raw), Len(bytes))]

\* a variant of append that writes the value in front of raw
AccList_append_front(l, value) ==
    [raw |-> write_scalar(value, <<>>) \o l.raw,
     cap |-> VecReserve(l.cap, Len(l.raw), Len(value) + 1)]

AccList_append(l, value) ==
    AccList_extend(l, write_scalar(value, <<>>))

\* merge: self.raw.extend(take(other.raw))
AccList_merge(self, other) ==
    [self |-> AccList_extend(self, other.raw), other |-> AccList_default]

RECURSIVE ValuesIterator(_, _)
ValuesIterator(raw, pos) ==
    IF pos < Len(raw)
    THEN LET rd == read_scalar(raw, pos) IN
         IF rd.ok
         THEN LET rest == ValuesIterator(raw, rd.pos) IN
              [ok |-> rest.ok, values |-> <<rd.value>> \o rest.values]
         ELSE [ok |-> FALSE, values |-> <<>>]
    ELSE [ok |-> TRUE, values |-> <<>>]

\* into_values: decodes raw from offset 0; ok = FALSE where unwrap() panics
AccList_into_values(l) == ValuesIterator(l.raw, 0)

AccList_ref_raw(l, pos_len) == SubSeq(l.raw, pos_len[1] + 1, pos_len[1] + pos_len[2])

\* ------------------------------------------------------------- InternalSet
\* enum InternalSet { Small(SmallVec<(u32, u32), 4>), Huge(RawTable<(u32, u32)>) }
\* items are the (offset, length) pairs in the order they were inserted; a
\* Huge table is iterated in hash order, which is any order of its items.
InternalSet_default == [huge |-> FALSE, items |-> <<>>]

InternalSet_len(s) == Len(s.items)

\* the orders into_iter() can yield the items in
InternalSet_into_iter(s) ==
    IF s.huge THEN Perms(Len(s.items))
    ELSE {[i \in 1..Len(s.items) |-> i]}

\* the inline capacity of the Small variant: SmallVec<(u32, u32), 4>
SmallLen == 4

\* no size is compared: a Small set is rebuilt as a table whenever this is called
convert_to_huge_if_needed(s, list) ==
    IF ~s.huge THEN [huge |-> TRUE, items |-> s.items] ELSE s

\* ------------------------------------------------------------- AccSet
\* size_of::<(u32, u32)>()
SizeOfPosLen == 8

AccSet_default == [list |-> AccList_default, set |-> InternalSet_default]

AccSet_mem_size(a) ==
    AccList_mem_size(a.list) + InternalSet_len(a.set) * SizeOfPosLen

\* is a slice equal to `bytes` already in the set: the linear scan of Small,
\* the table probe with the length-and-bytes equality of Huge
AccSet_found(a, bytes) ==
    IF ~a.set.huge
    THEN \E i \in DOMAIN a.set.items : AccList_ref_raw(a.list, a.set.items[i]) = bytes
    ELSE \E i \in DOMAIN a.set.items :
            /\ Len(bytes) = a.set.items[i][2]
            /\ bytes = AccList_ref_raw(a.list, a.set.items[i])

AccSet_append_raw(a, raw) ==
    LET new_pos_len == <<Len(a.list.raw), Len(raw)>> IN
    IF ~a.set.huge
    THEN IF AccSet_found(a, raw) THEN a
         ELSE LET list2 == AccList_extend(a.list, raw)
                  pushed == [huge |-> FALSE, items |-> Append(a.set.items, new_pos_len)]
              IN [list |-> list2, set |-> convert_to_huge_if_needed(pushed, list2)]
    ELSE IF AccSet_found(a, raw) THEN a
         ELSE [list |-> AccList_extend(a.list, raw),
               set |-> [huge |-> TRUE, items |-> Append(a.set.items, new_pos_len)]]

\* a variant of append_raw_inline that inserts without looking the value up
AccSet_append_raw_inline_always(a, raw_start) ==
    [list |-> a.list,
     set |-> [huge |-> TRUE,
              items |-> Append(a.set.items, <<raw_start, Len(a.list.raw) - raw_start>>)]]

\* the bytes from raw_start to the end of raw were just written
AccSet_append_raw_inline(a, raw_start) ==
    LET new_len == Len(a.list.raw) - raw_start
        new_pos_len == <<raw_start, new_len>>
        new_value == AccList_ref_raw(a.list, new_pos_len)
        inserted == ~AccSet_found(a, new_value)
        pushed == [huge |-> a.set.huge, items |-> Append(a.set.items, new_pos_len)]
    IN IF inserted
       THEN [list |-> a.list,
             set |-> IF ~a.set.huge THEN convert_to_huge_if_needed(pushed, a.list)
                     ELSE pushed]
       ELSE \* raw.truncate(raw_start): the capacity stays
            [list |-> [raw |-> SubSeq(a.list.raw, 1, raw_start), cap |-> a.list.cap],
             set |-> a.set]

AccSet_append(a, value) ==
    LET old_raw_len == Len(a.list.raw) IN
    AccSet_append_raw_inline([list |-> AccList_append(a.list, value), set |-> a.set],
                             old_raw_len)

RECURSIVE AccSet_merge_loop(_, _, _, _, _)
AccSet_merge_loop(self, list, items, order, k) ==
    IF k > Len(items) THEN self
    ELSE AccSet_merge_loop(AccSet_append_raw(self, AccList_ref_raw(list, items[order[k]])),
                           list, items, order, k + 1)

\* which of the two is probed after the swap of merge
AccSet_merge_swaps(self, other) ==
    InternalSet_len(self.set) < InternalSet_len(other.set)

AccSet_merge_probed(self, other) ==
    IF AccSet_merge_swaps(self, other) THEN self ELSE other

\* merge; order is the order take(other.set).into_iter() yields the pairs in
AccSet_merge(self, other, order) ==
    LET s0 == IF AccSet_merge_swaps(self, other) THEN other ELSE self
        o0 == AccSet_merge_probed(self, other)
    IN [self |-> AccSet_merge_loop(s0, o0.list, o0.set.items, order, 1),
        other |-> [list |-> o0.list, set |-> InternalSet_default]]

AccSet_into_values(a) == AccList_into_values(a.list)

\* ------------------------------------------------------------- AccSetColumn
\* struct AccSetColumn { set: Vec<AccSet>, dt, mem_used: usize }
AccSetColumn_empty == [set |-> <<>>, mem_used |-> 0]

AccSetColumn_num_records(col) == Len(col.set)

AccSetColumn_resize(col, len) ==
    LET evicted == [i \in 1..(Len(col.set) - len) |-> AccSet_mem_size(col.set[len + i])]
    IN [set |-> [i \in 1..len |-> IF i <= Len(col.set) THEN col.set[i] ELSE AccSet_default],
        mem_used |-> IF len < Len(col.set) THEN col.mem_used - SumSeq(evicted)
                     ELSE col.mem_used]

\* idx is the 0-based group ordinal
AccSetColumn_append_item(col, idx, value) ==
    LET old_mem_size == AccSet_mem_size(col.set[idx + 1])
        new == AccSet_append(col.set[idx + 1], value)
    IN [set |-> [col.set EXCEPT ![idx + 1] = new],
        mem_used |-> col.mem_used + (AccSet_mem_size(new) - old_mem_size)]

AccSetColumn_merge_items(col, idx, other, other_idx, order) ==
    LET self_value_mem_size == AccSet_mem_size(col.set[idx + 1])
        other_value_mem_size == AccSet_mem_size(other.set[other_idx + 1])
        m == AccSet_merge(col.set[idx + 1], other.set[other_idx + 1], order)
    IN [self |-> [set |-> [col.set EXCEPT ![idx + 1] = m.self],
                  mem_used |-> col.mem_used + (AccSet_mem_size(m.self) - self_value_mem_size)],
        other |-> [set |-> [other.set EXCEPT ![other_idx + 1] = m.other],
                   mem_used |-> other.mem_used - other_value_mem_size]]

AccSetColumn_save_raw(col, idx, w) ==
    write_len(Len(col.set[idx + 1].list.raw), w) \o col.set[idx + 1].list.raw

\* the while loop of load_raw over the cursor on the record's bytes
RECURSIVE AccSetColumn_load_loop(_, _, _, _)
AccSetColumn_load_loop(col, idx, bytes, pos) ==
    IF pos < Len(bytes)
    THEN LET rd == read_scalar(bytes, pos) IN
         IF rd.ok
         THEN AccSetColumn_load_loop(AccSetColumn_append_item(col, idx, rd.value),
                                     idx, bytes, rd.pos)
         ELSE [ok |-> FALSE, col |-> col]
    ELSE [ok |-> TRUE, col |-> col]

\* load_raw from the reader r standing at pos; pos is where the reader stands after
AccSetColumn_load_raw(col, idx, r, pos) ==
    LET cleared == [set |-> [col.set EXCEPT ![idx + 1] = AccSet_default],
                    mem_used |-> col.mem_used - AccSet_mem_size(col.set[idx + 1])]
        rl == read_len(r, pos)
        rb == read_bytes_slice(r, rl.pos, rl.len)
        lp == AccSetColumn_load_loop(cleared, idx, rb.bytes, 0)
    IN IF ~rl.ok THEN [ok |-> FALSE, col |-> cleared, pos |-> rl.pos]
       ELSE IF ~rb.ok THEN [ok |-> FALSE, col |-> cleared, pos |-> rb.pos]
       ELSE IF ~lp.ok THEN [ok |-> FALSE, col |-> lp.col, pos |-> rb.pos]
       ELSE [ok |-> TRUE,
             col |-> [set |-> lp.col.set,
                      mem_used |-> lp.col.mem_used + AccSet_mem_size(lp.col.set[idx + 1])],
             pos |-> rb.pos]

AccSetColumn_take_values(col, idx) ==
    [col |-> [set |-> [col.set EXCEPT ![idx + 1] = AccSet_default],
              mem_used |-> col.mem_used - AccSet_mem_size(col.set[idx + 1])],
     values |-> AccSet_into_values(col.set[idx + 1])]

\* ------------------------------------------------------------- AccListColumn
\* struct AccListColumn { list: Vec<AccList>, mem_used: usize }
AccListColumn_empty == [list |-> <<>>, mem_used |-> 0]

AccListColumn_num_records(col) == Len(col.list)

AccListColumn_resize(col, len) ==
    LET evicted == [i \in 1..(Len(col.list) - len) |-> AccList_mem_size(col.list[len + i])]
    IN [list |-> [i \in 1..len |-> IF i <= Len(col.list) THEN col.list[i] ELSE AccList_default],
        mem_used |-> IF len < Len(col.list) THEN col.mem_used - SumSeq(evicted)
                     ELSE col.mem_used]

AccListColumn_append_item(col, idx, value) ==
    LET old_mem_size == AccList_mem_size(col.list[idx + 1])
        new == AccList_append(col.list[idx + 1], value)
    IN [list |-> [col.list EXCEPT ![idx + 1] = new],
        mem_used |-> col.mem_used + (AccList_mem_size(new) - old_mem_size)]

\* a variant of merge_items that leaves the counter of the source column as it is
AccListColumn_merge_items_keep(col, idx, other, other_idx) ==
    LET self_value_mem_size == AccList_mem_size(col.list[idx + 1])
        m == AccList_merge(col.list[idx + 1], other.list[other_idx + 1])
    IN [self |-> [list |-> [col.list EXCEPT ![idx + 1] = m.self],
                  mem_used |-> col.mem_used + (AccList_mem_size(m.self) - self_value_mem_size)],
        other |-> [list |-> [other.list EXCEPT ![other_idx + 1] = m.other],
                   mem_used |-> other.mem_used]]

AccListColumn_merge_items(col, idx, other, other_idx) ==
    LET self_value_mem_size == AccList_mem_size(col.list[idx + 1])
        other_value_mem_size == AccList_mem_size(other.list[other_idx + 1])
        m == AccList_merge(col.list[idx + 1], other.list[other_idx + 1])
    IN [self |-> [list |-> [col.list EXCEPT ![idx + 1] = m.self],
                  mem_used |-> col.mem_used + (AccList_mem_size(m.self) - self_value_mem_size)],
        other |-> [list |-> [other.list EXCEPT ![other_idx + 1] = m.other],
                   mem_used |-> other.mem_used - other_value_mem_size]]

AccListColumn_save_raw(col, idx, w) ==
    write_len(Len(col.list[idx + 1].raw), w) \o col.list[idx + 1].raw

\* a variant of load_raw that adds the record to what the slot holds
AccListColumn_load_raw_add(col, idx, r, pos) ==
    LET rl == read_len(r, pos)
        rb == read_bytes_slice(r, rl.pos, rl.len)
        new == AccList_extend(col.list[idx + 1], rb.bytes)
    IN IF ~rl.ok THEN [ok |-> FALSE, col |-> col, pos |-> rl.pos]
       ELSE IF ~rb.ok THEN [ok |-> FALSE, col |-> col, pos |-> rb.pos]
       ELSE [ok |-> TRUE,
             col |-> [list |-> [col.list EXCEPT ![idx + 1] = new],
                      mem_used |-> col.mem_used + AccList_mem_size(new)
                                   - AccList_mem_size(col.list[idx + 1])],
             pos |-> rb.pos]

\* the bytes are stored as read: a Vec made from the slice has capacity = length
AccListColumn_load_raw(col, idx, r, pos) ==
    LET cleared == [list |-> [col.list EXCEPT ![idx + 1] = AccList_default],
                    mem_used |-> col.mem_used - AccList_mem_size(col.list[idx + 1])]
        rl == read_len(r, pos)
        rb == read_bytes_slice(r, rl.pos, rl.len)
        new == [raw |-> rb.bytes, cap |-> Len(rb.bytes)]
    IN IF ~rl.ok THEN [ok |-> FALSE, col |-> cleared, pos |-> rl.pos]
       ELSE IF ~rb.ok THEN [ok |-> FALSE, col |-> cleared, pos |-> rb.pos]
       ELSE [ok |-> TRUE,
             col |-> [list |-> [cleared.list EXCEPT ![idx + 1] = new],
                      mem_used |-> cleared.mem_used + AccList_mem_size(new)],
             pos |-> rb.pos]

AccListColumn_take_values(col, idx) ==
    [col |-> [list |-> [col.list EXCEPT ![idx + 1] = AccList_default],
              mem_used |-> col.mem_used - AccList_mem_size(col.list[idx + 1])],
     values |-> AccList_into_values(col.list[idx + 1])]

\* ------------------------------------------------------------- AccCollectionColumn
\* The trait's required methods, by the implementing type k ("set" or "list").
empty(k) == IF k = "set" THEN AccSetColumn_empty ELSE AccListColumn_empty

num_records(k, col) ==
    IF k = "set" THEN AccSetColumn_num_records(col) ELSE AccListColumn_num_records(col)

resize(k, col, len) ==
    IF k = "set" THEN AccSetColumn_resize(col, len) ELSE AccListColumn_resize(col, len)

append_item(k, col, idx, value) ==
    IF k = "set" THEN AccSetColumn_append_item(col, idx, value)
    ELSE AccListColumn_append_item(col, idx, value)

merge_items(k, col, idx, other, other_idx, order) ==
    IF k = "set" THEN AccSetColumn_merge_items(col, idx, other, other_idx, order)
    ELSE AccListColumn_merge_items(col, idx, other, other_idx)

save_raw(k, col, idx, w) ==
    IF k = "set" THEN AccSetColumn_save_raw(col, idx, w)
    ELSE AccListColumn_save_raw(col, idx, w)

load_raw(k, col, idx, r, pos) ==
    IF k = "set" THEN AccSetColumn_load_raw(col, idx, r, pos)
    ELSE AccListColumn_load_raw(col, idx, r, pos)

take_values(k, col, idx) ==
    IF k = "set" THEN AccSetColumn_take_values(col, idx)
    ELSE AccListColumn_take_values(col, idx)

\* the slots of a column, its running counter's target, a slot's values
slots(k, col) == IF k = "set" THEN col.set ELSE col.list

mem_size(k, slot) == IF k = "set" THEN AccSet_mem_size(slot) ELSE AccList_mem_size(slot)

into_values(k, slot) ==
    IF k = "set" THEN AccSet_into_values(slot) ELSE AccList_into_values(slot)

raw_of(k, slot) == IF k = "set" THEN slot.list.raw ELSE slot.raw

\* the orders in which merge can visit the probed set of a merge of two slots
merge_orders(k, self, other) ==
    IF k = "set" THEN InternalSet_into_iter(AccSet_merge_probed(self, other).set)
    ELSE {<<>>}

\* spill: save_raw of every selected slot onto one stream
RECURSIVE spill(_, _, _, _)
spill(k, col, idx, w) ==
    IF idx = <<>> THEN w
    ELSE spill(k, col, Tail(idx), save_raw(k, col, Head(idx), w))

\* the while loop of unspill: idx is not advanced
RECURSIVE unspill_loop(_, _, _, _, _)
unspill_loop(k, col, idx, r, pos) ==
    IF idx < num_records(k, col)
    THEN LET ld == load_raw(k, col, idx, r, pos) IN
         IF ld.ok THEN unspill_loop(k, ld.col, idx, r, ld.pos)
         ELSE [ok |-> FALSE, col |-> ld.col, pos |-> ld.pos]
    ELSE [ok |-> TRUE, col |-> col, pos |-> pos]

unspill(k, col, num_rows, r, pos) ==
    LET idx == num_records(k, col) IN
    unspill_loop(k, resize(k, col, idx + num_rows), idx, r, pos)

\* freeze_to_rows: save_raw of the n-th selected slot onto array[n]
freeze_to_rows(k, col, idx, array) ==
    [n \in DOMAIN array |->
        IF n <= Len(idx) THEN save_raw(k, col, idx[n], array[n]) ELSE array[n]]

\* a variant of the loop of unfreeze_from_rows that loads every row into the
\* first new slot
RECURSIVE unfreeze_loop_same_slot(_, _, _, _, _, _)
unfreeze_loop_same_slot(k, col, idx, array, offsets, n) ==
    IF n > Len(array) \/ n > Len(offsets)
    THEN [ok |-> TRUE, col |-> col, offsets |-> offsets]
    ELSE LET ld == load_raw(k, col, idx, array[n], offsets[n]) IN
         IF ld.ok
         THEN unfreeze_loop_same_slot(k, ld.col, idx, array,
                                      [offsets EXCEPT ![n] = ld.pos], n + 1)
         ELSE [ok |-> FALSE, col |-> ld.col, offsets |-> offsets]

\* the for loop of unfreeze_from_rows from row n on
RECURSIVE unfreeze_loop(_, _, _, _, _, _)
unfreeze_loop(k, col, idx, array, offsets, n) ==
    IF n > Len(array) \/ n > Len(offsets)
    THEN [ok |-> TRUE, col |-> col, offsets |-> offsets]
    ELSE LET ld == load_raw(k, col, idx, array[n], offsets[n]) IN
         IF ld.ok
         THEN unfreeze_loop(k, ld.col, idx + 1, array,
                            [offsets EXCEPT ![n] = ld.pos], n + 1)
         ELSE [ok |-> FALSE, col |-> ld.col, offsets |-> offsets]

unfreeze_from_rows(k, col, array, offsets) ==
    LET idx == num_records(k, col) IN
    unfreeze_loop(k, resize(k, col, idx + Len(array)), idx, array, offsets, 1)

\* ------------------------------------------------------------- AggGenericCollect
\* partial_update over the zipped selections (acc_idx, partial_arg_idx), from pair n on
RECURSIVE partial_update(_, _, _, _, _, _)
partial_update(k, accs, acc_idx, partial_args, partial_arg_idx, n) ==
    IF n > Len(acc_idx) \/ n > Len(partial_arg_idx) THEN accs
    ELSE LET scalar == partial_args[partial_arg_idx[n] + 1]
             next == IF scalar # Null THEN append_item(k, accs, acc_idx[n], scalar)
                     ELSE accs
         IN partial_update(k, next, acc_idx, partial_args, partial_arg_idx, n + 1)

\* final_merge over the selection acc_idx: the column left and the lists taken;
\* ok = FALSE where an unwrap() of into_values panics
RECURSIVE final_merge(_, _, _)
final_merge(k, accs, acc_idx) ==
    IF acc_idx = <<>> THEN [ok |-> TRUE, col |-> accs, list |-> <<>>]
    ELSE LET tv == take_values(k, accs, Head(acc_idx))
             rest == final_merge(k, tv.col, Tail(acc_idx))
         IN [ok |-> tv.values.ok /\ rest.ok, col |-> rest.col,
             list |-> <<tv.values.values>> \o rest.list]

\* ------------------------------------------------------------- SemiJoiner
\* a null key value of a key column; the key values of the model are 1, 2, ...
NullKey == 0

JoinerParams_new(probe_side, probe_is_join_side, mode) ==
    [probe_side |-> probe_side, probe_is_join_side |-> probe_is_join_side, mode |-> mode]

LEFT_PROBED_LEFT_SEMI == JoinerParams_new("L", TRUE, "Semi")
LEFT_PROBED_LEFT_ANTI == JoinerParams_new("L", TRUE, "Anti")
LEFT_PROBED_RIGHT_SEMI == JoinerParams_new("L", FALSE, "Semi")
LEFT_PROBED_RIGHT_ANTI == JoinerParams_new("L", FALSE, "Anti")
LEFT_PROBED_EXISTENCE == JoinerParams_new("L", TRUE, "Existence")
RIGHT_PROBED_LEFT_SEMI == JoinerParams_new("R", FALSE, "Semi")
RIGHT_PROBED_LEFT_ANTI == JoinerParams_new("R", FALSE, "Anti")
RIGHT_PROBED_RIGHT_SEMI == JoinerParams_new("R", TRUE, "Semi")
RIGHT_PROBED_RIGHT_ANTI == JoinerParams_new("R", TRUE, "Anti")
RIGHT_PROBED_EXISTENCE == JoinerParams_new("R", FALSE, "Existence")

JoinerTypes ==
    {LEFT_PROBED_LEFT_SEMI, LEFT_PROBED_LEFT_ANTI, LEFT_PROBED_RIGHT_SEMI,
     LEFT_PROBED_RIGHT_ANTI, LEFT_PROBED_EXISTENCE, RIGHT_PROBED_LEFT_SEMI,
     RIGHT_PROBED_LEFT_ANTI, RIGHT_PROBED_RIGHT_SEMI, RIGHT_PROBED_RIGHT_ANTI,
     RIGHT_PROBED_EXISTENCE}

\* A row is its tuple of key values, one per key expression; a batch is a
\* sequence of rows.  Keys 1 and 3 of the first column share a hash code.
KeyRows == {<<NullKey, 7>>, <<1, NullKey>>, <<1, 7>>, <<2, 7>>, <<3, 7>>}

\* join_create_hashes: the hash code of a row's key columns
join_create_hashes(key) == (key[1] + key[2]) % 2

\* the union of the key columns' null buffers: is the row valid
probed_valids(key) == \A n \in DOMAIN key : key[n] # NullKey

\* make_eq_comparator_multiple_arrays: all key pairs equal and non-null
eq(probed_key, map_key) ==
    \A n \in DOMAIN probed_key :
        /\ probed_key[n] # NullKey
        /\ map_key[n] # NullKey
        /\ probed_key[n] = map_key[n]

\* JoinHashMap::entry_indices(hash): the build rows with that hash, ascending
RECURSIVE entry_indices(_, _, _)
entry_indices(map_keys, hash, n) ==
    IF n > Len(map_keys) THEN <<>>
    ELSE (IF join_create_hashes(map_keys[n]) = hash THEN <<n - 1>> ELSE <<>>)
         \o entry_indices(map_keys, hash, n + 1)

\* take_cols(cols, indices): the rows at the indices, each with its ordinal
take_cols(rows, indices) ==
    [n \in DOMAIN indices |-> [idx |-> indices[n], key |-> rows[indices[n] + 1]]]

\* a variant of the filter that keeps every ordinal
RECURSIVE filter_indices_all(_, _, _)
filter_indices_all(mode, joined, n) ==
    IF n > Len(joined) THEN <<>>
    ELSE <<n - 1>> \o filter_indices_all(mode, joined, n + 1)

\* a variant of the filter that keeps the joined ordinals in every mode
RECURSIVE filter_indices_joined(_, _, _)
filter_indices_joined(mode, joined, n) ==
    IF n > Len(joined) THEN <<>>
    ELSE (IF joined[n] THEN <<n - 1>> ELSE <<>>)
         \o filter_indices_joined(mode, joined, n + 1)

\* the ordinals of a bitmap that pass the filter (mode == Semi) ^ !joined
RECURSIVE filter_indices(_, _, _)
filter_indices(mode, joined, n) ==
    IF n > Len(joined) THEN <<>>
    ELSE (IF (mode = "Semi") # (~joined[n]) THEN <<n - 1>> ELSE <<>>)
         \o filter_indices(mode, joined, n + 1)

\* a variant of the exists column that is true at every row
with_exists_col_true(rows, joined) ==
    [n \in DOMAIN rows |-> [idx |-> n - 1, key |-> rows[n], exists |-> TRUE]]

\* the rows with the exists column appended
with_exists_col(rows, joined) ==
    [n \in DOMAIN rows |-> [idx |-> n - 1, key |-> rows[n], exists |-> joined[n]]]

\* a variant of the loop over the entries that stops at the first equal entry
RECURSIVE join_entries_first(_, _, _, _, _, _)
join_entries_first(P, map_keys, st, row_idx, key, entries) ==
    IF entries = <<>> THEN st
    ELSE LET map_idx == Head(entries)
             hit == eq(key, map_keys[map_idx + 1])
         IN IF hit
            THEN [map_joined |->
                     IF ~P.probe_is_join_side
                     THEN [st.map_joined EXCEPT ![map_idx + 1] = TRUE]
                     ELSE st.map_joined,
                  probed_joined |->
                     IF P.probe_is_join_side
                     THEN [st.probed_joined EXCEPT ![row_idx + 1] = TRUE]
                     ELSE st.probed_joined,
                  maybe_joined |-> TRUE]
            ELSE join_entries_first(P, map_keys, [st EXCEPT !.maybe_joined = TRUE],
                                    row_idx, key, Tail(entries))

\* a variant of the loop over the entries that sets maybe_joined on equal
\* entries only
RECURSIVE join_entries_hit_only(_, _, _, _, _, _)
join_entries_hit_only(P, map_keys, st, row_idx, key, entries) ==
    IF entries = <<>> THEN st
    ELSE LET map_idx == Head(entries)
             next ==
                IF ~P.probe_is_join_side /\ st.map_joined[map_idx + 1]
                THEN st
                ELSE IF eq(key, map_keys[map_idx + 1])
                THEN [map_joined |->
                         IF ~P.probe_is_join_side
                         THEN [st.map_joined EXCEPT ![map_idx + 1] = TRUE]
                         ELSE st.map_joined,
                      probed_joined |->
                         IF P.probe_is_join_side
                         THEN [st.probed_joined EXCEPT ![row_idx + 1] = TRUE]
                         ELSE st.probed_joined,
                      maybe_joined |-> TRUE]
                ELSE st
         IN join_entries_hit_only(P, map_keys, next, row_idx, key, Tail(entries))

\* the loop over the entries of one probed row; st carries map_joined,
\* probed_joined and maybe_joined
RECURSIVE join_entries(_, _, _, _, _, _)
join_entries(P, map_keys, st, row_idx, key, entries) ==
    IF entries = <<>> THEN st
    ELSE LET map_idx == Head(entries)
             next ==
                IF ~P.probe_is_join_side /\ st.map_joined[map_idx + 1]
                THEN st
                ELSE LET hit == eq(key, map_keys[map_idx + 1]) IN
                     [map_joined |->
                         IF hit /\ ~P.probe_is_join_side
                         THEN [st.map_joined EXCEPT ![map_idx + 1] = TRUE]
                         ELSE st.map_joined,
                      probed_joined |->
                         IF hit /\ P.probe_is_join_side
                         THEN [st.probed_joined EXCEPT ![row_idx + 1] = TRUE]
                         ELSE st.probed_joined,
                      maybe_joined |-> TRUE]
         IN join_entries(P, map_keys, next, row_idx, key, Tail(entries))

\* a variant of the loop of join that marks the hash of every valid row it has
\* looked up as skippable
RECURSIVE join_rows_skip_always(_, _, _, _, _)
join_rows_skip_always(P, map_keys, st, probed_batch, row_idx) ==
    IF row_idx >= Len(probed_batch) THEN st
    ELSE LET key == probed_batch[row_idx + 1]
             hash == join_create_hashes(key)
             e == join_entries(P, map_keys,
                               [map_joined |-> st.map_joined,
                                probed_joined |-> st.probed_joined,
                                maybe_joined |-> FALSE],
                               row_idx, key, entry_indices(map_keys, hash, 1))
             next ==
                IF ~probed_valids(key) THEN st
                ELSE IF ~P.probe_is_join_side /\ hash \in st.hash_skippable THEN st
                ELSE [map_joined |-> e.map_joined,
                      probed_joined |-> e.probed_joined,
                      hash_skippable |->
                         IF ~P.probe_is_join_side
                         THEN st.hash_skippable \cup {hash}
                         ELSE st.hash_skippable]
         IN join_rows_skip_always(P, map_keys, next, probed_batch, row_idx + 1)

\* a variant of the loop of join that starts every batch with a cleared bitmap
RECURSIVE join_rows_fresh(_, _, _, _, _)
join_rows_fresh(P, map_keys, st, probed_batch, row_idx) ==
    LET st0 == IF row_idx = 0
               THEN [st EXCEPT !.map_joined = [n \in DOMAIN st.map_joined |-> FALSE]]
               ELSE st
    IN
    IF row_idx >= Len(probed_batch) THEN st0
    ELSE LET key == probed_batch[row_idx + 1]
             hash == join_create_hashes(key)
             e == join_entries(P, map_keys,
                               [map_joined |-> st0.map_joined,
                                probed_joined |-> st0.probed_joined,
                                maybe_joined |-> FALSE],
                               row_idx, key, entry_indices(map_keys, hash, 1))
             next ==
                IF ~probed_valids(key) THEN st0
                ELSE IF ~P.probe_is_join_side /\ hash \in st0.hash_skippable THEN st0
                ELSE [map_joined |-> e.map_joined,
                      probed_joined |-> e.probed_joined,
                      hash_skippable |->
                         IF ~P.probe_is_join_side /\ ~e.maybe_joined
                         THEN st0.hash_skippable \cup {hash}
                         ELSE st0.hash_skippable]
         IN join_rows_fresh(P, map_keys, next, probed_batch, row_idx + 1)

\* the loop of join over the probed rows, from row_idx on; st carries
\* map_joined, hash_skippable and probed_joined
RECURSIVE join_rows(_, _, _, _, _)
join_rows(P, map_keys, st, probed_batch, row_idx) ==
    IF row_idx >= Len(probed_batch) THEN st
    ELSE LET key == probed_batch[row_idx + 1]
             hash == join_create_hashes(key)
             entries == entry_indices(map_keys, hash, 1)
             e == join_entries(P, map_keys,
                               [map_joined |-> st.map_joined,
                                probed_joined |-> st.probed_joined,
                                maybe_joined |-> FALSE],
                               row_idx, key, entries)
             next ==
                IF ~probed_valids(key) THEN st
                ELSE IF ~P.probe_is_join_side /\ hash \in st.hash_skippable THEN st
                ELSE [map_joined |-> e.map_joined,
                      probed_joined |-> e.probed_joined,
                      hash_skippable |->
                         IF ~P.probe_is_join_side /\ ~e.maybe_joined
                         THEN st.hash_skippable \cup {hash}
                         ELSE st.hash_skippable]
         IN join_rows(P, map_keys, next, probed_batch, row_idx + 1)

\* what join sends when the probe is the join side
join_output(P, probed_batch, probed_joined) ==
    IF P.mode \in {"Semi", "Anti"}
    THEN take_cols(probed_batch, filter_indices(P.mode, probed_joined, 1))
    ELSE with_exists_col(probed_batch, probed_joined)

\* what finish sends when the map is the join side
finish_output(P, map_keys, map_joined) ==
    IF P.mode \in {"Semi", "Anti"}
    THEN take_cols(map_keys, filter_indices(P.mode, map_joined, 1))
    ELSE with_exists_col(map_keys, map_joined)

\* output_sender.send: the batch is handed over; a consumer that has gone away
\* is reported to the caller of send
send(consumer_end) ==
    IF consumer_end = "open" THEN "open" ELSE "refused"

\* a variant of flush that does not count the rows it sends
flush_uncounted(rows_before, sent_before, consumer_end, cols, fault) ==
    IF fault = "try_new"
    THEN [ok |-> FALSE, output_rows |-> rows_before, sent |-> sent_before,
          consumer |-> consumer_end]
    ELSE [ok |-> TRUE, output_rows |-> rows_before,
          sent |-> Append(sent_before, cols), consumer |-> send(consumer_end)]

\* a variant of flush that counts the rows before it builds the batch
flush_count_first(rows_before, sent_before, consumer_end, cols, fault) ==
    IF fault = "try_new"
    THEN [ok |-> FALSE, output_rows |-> rows_before + Len(cols), sent |-> sent_before,
          consumer |-> consumer_end]
    ELSE [ok |-> TRUE, output_rows |-> rows_before + Len(cols),
          sent |-> Append(sent_before, cols), consumer |-> send(consumer_end)]

\* flush(cols): build the batch, count its rows, send it; what send reports
\* is dropped and the result is Ok
flush(rows_before, sent_before, consumer_end, cols, fault) ==
    IF fault = "try_new"
    THEN [ok |-> FALSE, output_rows |-> rows_before, sent |-> sent_before,
          consumer |-> consumer_end]
    ELSE [ok |-> TRUE, output_rows |-> rows_before + Len(cols),
          sent |-> Append(sent_before, cols), consumer |-> send(consumer_end)]

\* a variant of can_early_stop that is content with one joined row
can_early_stop_some(P, map_joined) ==
    IF ~P.probe_is_join_side /\ (\E n \in DOMAIN map_joined : map_joined[n])
    THEN TRUE
    ELSE FALSE

can_early_stop(P, map_joined) ==
    IF ~P.probe_is_join_side /\ (\A n \in DOMAIN map_joined : map_joined[n])
    THEN TRUE
    ELSE FALSE

\* ------------------------------------------------------------- state
VARIABLES
    kind,      \* the column type C of AggGenericCollect<C>: "set" or "list"
    cols,      \* the two accumulator columns: accs and merging_accs
    w,         \* the bytes written to the stream (save_raw, spill)
    rpos,      \* where the reader of the stream stands
    hist,      \* history: per slot of accs, the rows delivered since it was last empty
    saved,     \* history: per record of w, where it starts and the values it was written from
    last,      \* history: the last read of records (load_raw, unspill, unfreeze_from_rows)
    P,              \* the joiner's const parameter
    map,            \* the build side: the key rows of map.data_batch()
    map_joined,     \* SemiJoiner.map_joined
    hash_skippable, \* SemiJoiner.hash_skippable
    output_rows,    \* SemiJoiner.output_rows
    sent,           \* the batches handed to output_sender, in order
    phase,          \* "probing", "finished" after finish(), "failed" after an error
    consumer,       \* the receiving end of output_sender: "open", "gone", or
                    \* "refused" once a send found it gone
    batches         \* history: the batches passed to join, in order

accVars == <<kind, cols, w, rpos, hist, saved, last>>

joinVars == <<P, map, map_joined, hash_skippable, output_rows, sent, phase, consumer,
              batches>>

vars == <<kind, cols, w, rpos, hist, saved, last,
          P, map, map_joined, hash_skippable, output_rows, sent, phase, consumer,
          batches>>

ColNames == {"accs", "merging"}

\* a slot's history: the rows delivered to it since it was last empty, whether
\* deliveries are all that happened to it since then, and whether the last
\* thing that happened to it was to be the source of a merge
H0 == [clean |-> TRUE, deliv |-> <<>>, src |-> FALSE]
HDirty == [clean |-> FALSE, deliv |-> <<>>, src |-> FALSE]
HSource == [clean |-> FALSE, deliv |-> <<>>, src |-> TRUE]

\* no read of records was the last operation
NoLast == [op |-> "none", col |-> "accs", idx |-> 0, ok |-> TRUE,
           exp |-> <<>>, pre |-> <<>>, offsets |-> <<>>, rows |-> <<>>]

\* index selections over a column of n slots: distinct ordinals, in any order
Selections(n) ==
    {s \in UNION {[1..m -> 0..(n - 1)] : m \in 1..n} :
        \A i, j \in DOMAIN s : i # j => s[i] # s[j]}

Values(slot) == into_values(kind, slot).values

\* what the slots hold: per slot its values, or the rows delivered to it if more
RECURSIVE HeldIn(_, _, _)
HeldIn(ss, hs, i) ==
    IF i > Len(ss) THEN 0
    ELSE Max(Len(Values(ss[i])), Len(hs[i].deliv)) + HeldIn(ss, hs, i + 1)

Held == HeldIn(slots(kind, cols["accs"]), hist, 1)
        + HeldIn(slots(kind, cols["merging"]),
                 [i \in DOMAIN slots(kind, cols["merging"]) |-> H0], 1)

\* the sum the running counter of a column tracks
RECURSIVE MemSum(_, _)
MemSum(ss, i) ==
    IF i > Len(ss) THEN 0 ELSE mem_size(kind, ss[i]) + MemSum(ss, i + 1)

Drift(c) == cols[c].mem_used - MemSum(slots(kind, cols[c]), 1)

\* the run goes on while the counters are within MaxDrift of their sums
Bounded == \A c \in ColNames : Drift(c) <= MaxDrift /\ -Drift(c) <= MaxDrift

AccInit ==
    /\ kind \in {"set", "list"}
    /\ cols = [c \in ColNames |-> empty(kind)]
    /\ w = <<>>
    /\ rpos = 0
    /\ hist = <<>>
    /\ saved = <<>>
    /\ last = NoLast

\* the column side while only the joiner runs
AccIdle ==
    /\ kind = "set"
    /\ cols = [c \in ColNames |-> empty("set")]
    /\ w = <<>>
    /\ rpos = 0
    /\ hist = <<>>
    /\ saved = <<>>
    /\ last = NoLast

\* create_acc_column(n) on a new column, resize(len) on an existing one
Resize(c, len) ==
    /\ Bounded
    /\ len # num_records(kind, cols[c])
    /\ cols' = [cols EXCEPT ![c] = resize(kind, @, len)]
    /\ hist' = IF c = "accs"
               THEN [i \in 1..len |-> IF i <= Len(hist) THEN hist[i] ELSE H0]
               ELSE hist
    /\ last' = NoLast
    /\ UNCHANGED <<kind, w, rpos, saved>>
    /\ UNCHANGED joinVars

RECURSIVE Delivered(_, _, _, _)
Delivered(h, acc_idx, partial_args, n) ==
    IF n > Len(acc_idx) THEN h
    ELSE Delivered([h EXCEPT ![acc_idx[n] + 1].deliv = Append(@, partial_args[n]),
                             ![acc_idx[n] + 1].src = FALSE],
                   acc_idx, partial_args, n + 1)

PartialUpdate(c, acc_idx, partial_args) ==
    /\ Bounded
    /\ Held + Len(partial_args) <= MaxVals
    /\ cols' = [cols EXCEPT ![c] =
                   partial_update(kind, @, acc_idx, partial_args,
                                  [n \in DOMAIN partial_args |-> n - 1], 1)]
    /\ hist' = IF c = "accs" THEN Delivered(hist, acc_idx, partial_args, 1) ELSE hist
    /\ last' = NoLast
    /\ UNCHANGED <<kind, w, rpos, saved>>
    /\ UNCHANGED joinVars

AppendItem(c, idx, value) ==
    /\ Bounded
    /\ Held < MaxVals
    /\ cols' = [cols EXCEPT ![c] = append_item(kind, @, idx, value)]
    /\ hist' = IF c = "accs"
               THEN [hist EXCEPT ![idx + 1].deliv = Append(@, value),
                                 ![idx + 1].src = FALSE]
               ELSE hist
    /\ last' = NoLast
    /\ UNCHANGED <<kind, w, rpos, saved>>
    /\ UNCHANGED joinVars

MergeItems(c, idx, o, other_idx, order) ==
    /\ Bounded
    /\ c # o
    /\ LET m == merge_items(kind, cols[c], idx, cols[o], other_idx, order) IN
       cols' = [cols EXCEPT ![c] = m.self, ![o] = m.other]
    /\ hist' = IF c = "accs" THEN [hist EXCEPT ![idx + 1] = HDirty]
               ELSE [hist EXCEPT ![other_idx + 1] = HSource]
    /\ last' = NoLast
    /\ UNCHANGED <<kind, w, rpos, saved>>
    /\ UNCHANGED joinVars

FinalMerge(c, acc_idx) ==
    /\ Bounded
    /\ cols' = [cols EXCEPT ![c] = final_merge(kind, @, acc_idx).col]
    /\ hist' = IF c = "accs"
               THEN [i \in DOMAIN hist |->
                        IF (i - 1) \in Range(acc_idx) THEN H0 ELSE hist[i]]
               ELSE hist
    /\ last' = IF final_merge(kind, cols[c], acc_idx).ok THEN NoLast
               ELSE [NoLast EXCEPT !.op = "final_merge", !.col = c, !.ok = FALSE]
    /\ UNCHANGED <<kind, w, rpos, saved>>
    /\ UNCHANGED joinVars

\* history of save_raw: where each record starts and the values it was written from
RECURSIVE SavedRecords(_, _, _, _)
SavedRecords(sv, col, idx, start) ==
    IF idx = <<>> THEN sv
    ELSE LET slot == slots(kind, col)[Head(idx) + 1] IN
         SavedRecords(Append(sv, [start |-> start, values |-> Values(slot)]),
                      col, Tail(idx), start + 1 + Len(raw_of(kind, slot)))

\* the records of the stream from position pos on
RecordsFrom(pos) == SelectSeq(saved, LAMBDA rec : rec.start >= pos)

SaveRaw(c, idx) ==
    /\ Bounded
    /\ Len(saved) < MaxRecs
    /\ w' = save_raw(kind, cols[c], idx, w)
    /\ saved' = SavedRecords(saved, cols[c], <<idx>>, Len(w))
    /\ last' = NoLast
    /\ UNCHANGED <<kind, cols, rpos, hist>>
    /\ UNCHANGED joinVars

\* a variant of spill that takes the slots it has written out of the column
Spill_releasing(c, idx) ==
    /\ Bounded
    /\ Len(saved) + Len(idx) <= MaxRecs
    /\ w' = spill(kind, cols[c], idx, w)
    /\ saved' = SavedRecords(saved, cols[c], idx, Len(w))
    /\ cols' = [cols EXCEPT ![c] = final_merge(kind, @, idx).col]
    /\ last' = NoLast
    /\ UNCHANGED <<kind, rpos, hist>>
    /\ UNCHANGED joinVars

Spill(c, idx) ==
    /\ Bounded
    /\ Len(saved) + Len(idx) <= MaxRecs
    /\ w' = spill(kind, cols[c], idx, w)
    /\ saved' = SavedRecords(saved, cols[c], idx, Len(w))
    /\ last' = NoLast
    /\ UNCHANGED <<kind, cols, rpos, hist>>
    /\ UNCHANGED joinVars

\* load_raw from the stream, which holds a record where the reader stands
LoadRaw(c, idx) ==
    /\ Bounded
    /\ RecordsFrom(rpos) # <<>>
    /\ LET ld == load_raw(kind, cols[c], idx, w, rpos) IN
       /\ cols' = [cols EXCEPT ![c] = ld.col]
       /\ rpos' = ld.pos
       /\ last' = [op |-> "load_raw", col |-> c, idx |-> idx, ok |-> ld.ok,
                   exp |-> <<Head(RecordsFrom(rpos)).values>>,
                   pre |-> Values(slots(kind, cols[c])[idx + 1]),
                   offsets |-> <<>>, rows |-> <<>>]
    /\ hist' = IF c = "accs" THEN [hist EXCEPT ![idx + 1] = HDirty] ELSE hist
    /\ UNCHANGED <<kind, w, saved>>
    /\ UNCHANGED joinVars

\* unspill of the num_rows records that were spilled and not read yet
Unspill(c, num_rows) ==
    /\ Bounded
    /\ num_rows = Len(RecordsFrom(rpos))
    /\ num_records(kind, cols[c]) + num_rows <= MaxSlots
    /\ LET us == unspill(kind, cols[c], num_rows, w, rpos) IN
       /\ cols' = [cols EXCEPT ![c] = us.col]
       /\ rpos' = us.pos
       /\ last' = [op |-> "unspill", col |-> c, idx |-> num_records(kind, cols[c]),
                   ok |-> us.ok,
                   exp |-> [n \in 1..num_rows |-> RecordsFrom(rpos)[n].values],
                   pre |-> <<>>, offsets |-> <<>>, rows |-> <<>>]
       /\ hist' = IF c = "accs"
                  THEN [i \in 1..num_records(kind, us.col) |->
                           IF i <= Len(hist) THEN hist[i] ELSE HDirty]
                  ELSE hist
    /\ UNCHANGED <<kind, w, saved>>
    /\ UNCHANGED joinVars

\* rows handed to load_raw / unfreeze_from_rows by the caller: the record of at
\* most one value, after a prefix that the offset skips
FrozenRows ==
    {[bytes |-> prefix \o write_len(Len(raw), <<>>) \o raw, offset |-> Len(prefix),
      values |-> ValuesIterator(raw, 0).values] :
        prefix \in {<<>>, <<9>>},
        raw \in {<<>>} \cup {write_scalar(v, <<>>) : v \in Scalars}}

\* rows whose bytes are not a record: nothing where the length is read, fewer
\* bytes than the length says, a value that says it is longer than the record
MalformedRows ==
    {[bytes |-> prefix \o tail, offset |-> Len(prefix), values |-> <<>>] :
        prefix \in {<<>>, <<9>>},
        tail \in {<<>>, <<3, 0>>, <<2, 2, 1>>}}

\* load_raw from a row of the caller
LoadRawFrom(c, idx, row) ==
    /\ Bounded
    /\ Held + Len(row.values) <= MaxVals
    /\ LET ld == load_raw(kind, cols[c], idx, row.bytes, row.offset) IN
       /\ cols' = [cols EXCEPT ![c] = ld.col]
       /\ last' = [op |-> "load_raw", col |-> c, idx |-> idx, ok |-> ld.ok,
                   exp |-> <<row.values>>,
                   pre |-> Values(slots(kind, cols[c])[idx + 1]),
                   offsets |-> <<ld.pos>>, rows |-> <<>>]
    /\ hist' = IF c = "accs" THEN [hist EXCEPT ![idx + 1] = HDirty] ELSE hist
    /\ UNCHANGED <<kind, w, rpos, saved>>
    /\ UNCHANGED joinVars

UnfreezeFromRows(c, rows) ==
    /\ Bounded
    /\ num_records(kind, cols[c]) + Len(rows) <= MaxSlots
    /\ Held + SumSeq([n \in DOMAIN rows |-> Len(rows[n].values)]) <= MaxVals
    /\ LET uf == unfreeze_from_rows(kind, cols[c],
                                    [n \in DOMAIN rows |-> rows[n].bytes],
                                    [n \in DOMAIN rows |-> rows[n].offset]) IN
       /\ cols' = [cols EXCEPT ![c] = uf.col]
       /\ last' = [op |-> "unfreeze_from_rows", col |-> c,
                   idx |-> num_records(kind, cols[c]), ok |-> uf.ok,
                   exp |-> [n \in DOMAIN rows |-> rows[n].values],
                   pre |-> <<>>, offsets |-> uf.offsets,
                   rows |-> [n \in DOMAIN rows |->
                               [bytes |-> rows[n].bytes, offset |-> rows[n].offset]]]
       /\ hist' = IF c = "accs"
                  THEN [i \in 1..num_records(kind, uf.col) |->
                           IF i <= Len(hist) THEN hist[i] ELSE HDirty]
                  ELSE hist
    /\ UNCHANGED <<kind, w, rpos, saved>>
    /\ UNCHANGED joinVars

\* the rows freeze_to_rows writes for the selection idx of column o, each after
\* a prefix that its offset skips
FrozenFrom(o, idx, prefixes) ==
    LET array == freeze_to_rows(kind, cols[o], idx, prefixes) IN
    [n \in DOMAIN idx |->
        [bytes |-> array[n], offset |-> Len(prefixes[n]),
         values |-> Values(slots(kind, cols[o])[idx[n] + 1])]]

\* ------------------------------------------------------------- joiner actions
SeqsUpTo(S, n) == UNION {[1..m -> S] : m \in 0..n}

\* SemiJoiner::new over a build side of at most MaxBuild rows
JoinInit ==
    /\ P \in JoinerTypes
    /\ map \in SeqsUpTo(KeyRows, MaxBuild)
    /\ map_joined = [n \in DOMAIN map |-> FALSE]
    /\ hash_skippable = {}
    /\ output_rows = 0
    /\ sent = <<>>
    /\ phase = "probing"
    /\ consumer = "open"
    /\ batches = <<>>

\* the joiner side while only the columns run
JoinIdle ==
    /\ P = LEFT_PROBED_LEFT_SEMI
    /\ map = <<>>
    /\ map_joined = <<>>
    /\ hash_skippable = {}
    /\ output_rows = 0
    /\ sent = <<>>
    /\ phase = "probing"
    /\ consumer = "open"
    /\ batches = <<>>

\* the fallible calls of join before its loop, and of the emission
PrologueFaults == {"evaluate", "join_create_hashes", "make_eq_comparator"}

EmitFaults(params) ==
    IF params.mode \in {"Semi", "Anti"} THEN {"take_cols", "try_new"} ELSE {"try_new"}

\* join(probed_batch); fault names the call that returns an error, if any
Join(probed_batch, fault) ==
    /\ phase = "probing"
    /\ Len(batches) < MaxBatches
    /\ fault \in {"none"} \cup PrologueFaults
                 \cup (IF P.probe_is_join_side THEN EmitFaults(P) ELSE {})
    /\ LET st == join_rows(P, map,
                           [map_joined |-> map_joined,
                            hash_skippable |-> hash_skippable,
                            probed_joined |-> [n \in DOMAIN probed_batch |-> FALSE]],
                           probed_batch, 0)
           out == join_output(P, probed_batch, st.probed_joined)
           f == flush(output_rows, sent, consumer, out, fault)
       IN IF fault \in PrologueFaults
          THEN /\ phase' = "failed"
               /\ UNCHANGED <<map_joined, hash_skippable, output_rows, sent, consumer,
                              batches>>
          ELSE /\ map_joined' = st.map_joined
               /\ hash_skippable' = st.hash_skippable
               /\ IF fault = "take_cols"
                  THEN /\ phase' = "failed"
                       /\ UNCHANGED <<output_rows, sent, consumer, batches>>
                  ELSE IF P.probe_is_join_side
                  THEN /\ output_rows' = f.output_rows
                       /\ sent' = f.sent
                       /\ consumer' = f.consumer
                       /\ phase' = IF f.ok THEN phase ELSE "failed"
                       /\ batches' = IF f.ok THEN Append(batches, probed_batch)
                                             ELSE batches
                  ELSE /\ batches' = Append(batches, probed_batch)
                       /\ UNCHANGED <<output_rows, sent, consumer, phase>>
    /\ UNCHANGED <<P, map>>
    /\ UNCHANGED accVars

\* finish(); fault names the call that returns an error, if any
Finish(fault) ==
    /\ phase = "probing"
    /\ fault \in {"none"} \cup (IF P.probe_is_join_side THEN {} ELSE EmitFaults(P))
    /\ IF P.probe_is_join_side
       THEN /\ phase' = "finished"
            /\ UNCHANGED <<map_joined, output_rows, sent, consumer>>
       ELSE LET out == finish_output(P, map, map_joined)
                f == flush(output_rows, sent, consumer, out, fault)
            IN
            /\ map_joined' = <<>>
            /\ IF fault = "take_cols"
               THEN /\ phase' = "failed"
                    /\ UNCHANGED <<output_rows, sent, consumer>>
               ELSE /\ phase' = IF f.ok THEN "finished" ELSE "failed"
                    /\ output_rows' = f.output_rows
                    /\ sent' = f.sent
                    /\ consumer' = f.consumer
    /\ UNCHANGED <<P, map, hash_skippable, batches>>
    /\ UNCHANGED accVars

\* the consumer of the output goes away
Close ==
    /\ phase = "probing"
    /\ consumer = "open"
    /\ consumer' = "gone"
    /\ UNCHANGED <<P, map, map_joined, hash_skippable, output_rows, sent, phase, batches>>
    /\ UNCHANGED accVars

\* ------------------------------------------------------------- specifications
\* the operations of the aggregator on its two columns
CoreNext ==
    \/ \E c \in ColNames : \E len \in 0..MaxSlots : Resize(c, len)
    \/ \E c \in ColNames : \E acc_idx \in Selections(num_records(kind, cols[c])) :
          \E partial_args \in [1..Len(acc_idx) -> Inputs] :
             /\ Len(acc_idx) <= MaxBatch
             /\ PartialUpdate(c, acc_idx, partial_args)
    \/ \E c \in ColNames : \E idx \in 0..(num_records(kind, cols[c]) - 1) :
          \E value \in Scalars : AppendItem(c, idx, value)
    \/ \E c \in ColNames : \E o \in ColNames :
          \E idx \in 0..(num_records(kind, cols[c]) - 1) :
             \E other_idx \in 0..(num_records(kind, cols[o]) - 1) :
                /\ c # o
                /\ \E order \in merge_orders(kind, slots(kind, cols[c])[idx + 1],
                                             slots(kind, cols[o])[other_idx + 1]) :
                      MergeItems(c, idx, o, other_idx, order)
    \/ \E c \in ColNames : \E acc_idx \in Selections(num_records(kind, cols[c])) :
          FinalMerge(c, acc_idx)

\* records read from rows of the caller
RowsNext ==
    \/ \E c \in ColNames : \E idx \in 0..(num_records(kind, cols[c]) - 1) :
          \E row \in FrozenRows : LoadRawFrom(c, idx, row)
    \/ \E c \in ColNames : \E rows \in SeqsUpTo(FrozenRows, MaxSlots) :
          /\ rows # <<>>
          /\ UnfreezeFromRows(c, rows)

\* slots built in both columns, saved from accs, loaded into merging
RawNext ==
    \/ \E c \in ColNames : \E len \in 0..MaxSlots :
          /\ len > num_records(kind, cols[c])
          /\ Resize(c, len)
    \/ \E c \in ColNames : \E idx \in 0..(num_records(kind, cols[c]) - 1) :
          \E value \in Scalars : AppendItem(c, idx, value)
    \/ \E idx \in 0..(num_records(kind, cols["accs"]) - 1) : SaveRaw("accs", idx)
    \/ \E idx \in 0..(num_records(kind, cols["merging"]) - 1) : LoadRaw("merging", idx)

\* slots built in accs and spilled, the spill read back into merging and finalized
SpillNext ==
    \/ \E len \in 0..MaxSlots : Resize("accs", len)
    \/ \E idx \in 0..(num_records(kind, cols["accs"]) - 1) :
          \E value \in Scalars : AppendItem("accs", idx, value)
    \/ \E idx \in Selections(num_records(kind, cols["accs"])) : Spill("accs", idx)
    \/ \E num_rows \in 0..MaxRecs : Unspill("merging", num_rows)
    \/ \E acc_idx \in Selections(num_records(kind, cols["merging"])) :
          FinalMerge("merging", acc_idx)

\* the operations that move the running counter of a column
ListNext ==
    \/ \E c \in ColNames : \E len \in 0..MaxSlots : Resize(c, len)
    \/ \E c \in ColNames : \E idx \in 0..(num_records(kind, cols[c]) - 1) :
          \E value \in Scalars : AppendItem(c, idx, value)
    \/ \E c \in ColNames : \E o \in ColNames :
          \E idx \in 0..(num_records(kind, cols[c]) - 1) :
             \E other_idx \in 0..(num_records(kind, cols[o]) - 1) :
                /\ c # o
                /\ MergeItems(c, idx, o, other_idx, <<>>)
    \/ \E c \in ColNames : \E acc_idx \in Selections(num_records(kind, cols[c])) :
          FinalMerge(c, acc_idx)
    \/ RowsNext

JoinNext ==
    \/ \E probed_batch \in SeqsUpTo(KeyRows, MaxRows) :
          \E fault \in {"none", "take_cols", "try_new"} \cup PrologueFaults :
             Join(probed_batch, fault)
    \/ \E fault \in {"none", "take_cols", "try_new"} : Finish(fault)

Init == AccInit /\ JoinIdle

\* the list columns alone
ListInit == Init /\ kind = "list"

\* a new joiner, the columns idle
JoinerInit == AccIdle /\ JoinInit

Next == CoreNext

Spec == Init /\ [][Next]_vars

SpecList == ListInit /\ [][ListNext]_vars

SpecRaw == Init /\ [][RawNext]_vars

SpecSpill == Init /\ [][SpillNext]_vars

\* records read from rows that may be malformed, and finalized
DecodeNext ==
    \/ \E c \in ColNames : \E len \in 0..MaxSlots : Resize(c, len)
    \/ \E c \in ColNames : \E idx \in 0..(num_records(kind, cols[c]) - 1) :
          \E row \in FrozenRows \cup MalformedRows : LoadRawFrom(c, idx, row)
    \/ \E c \in ColNames : \E rows \in SeqsUpTo(FrozenRows \cup MalformedRows, MaxSlots) :
          /\ rows # <<>>
          /\ UnfreezeFromRows(c, rows)
    \/ \E c \in ColNames : \E acc_idx \in Selections(num_records(kind, cols[c])) :
          FinalMerge(c, acc_idx)

\* slots built by append_item, frozen to rows and read back from them
FreezeNext ==
    \/ \E c \in ColNames : \E len \in 0..MaxSlots : Resize(c, len)
    \/ \E c \in ColNames : \E idx \in 0..(num_records(kind, cols[c]) - 1) :
          \E value \in Scalars : AppendItem(c, idx, value)
    \/ \E c \in ColNames : \E o \in ColNames :
          \E idx \in Selections(num_records(kind, cols[o])) :
             \E prefixes \in [DOMAIN idx -> {<<>>, <<9>>}] :
                UnfreezeFromRows(c, FrozenFrom(o, idx, prefixes))

SpecFreeze == Init /\ [][FreezeNext]_vars

SpecDecode == Init /\ [][DecodeNext]_vars

SpecJoin == JoinerInit /\ [][JoinNext]_vars

\* the joiner and a consumer that may go away
SendNext ==
    \/ \E probed_batch \in SeqsUpTo(KeyRows, MaxSendRows) :
          \E fault \in {"none", "take_cols", "try_new"} \cup PrologueFaults :
             Join(probed_batch, fault)
    \/ \E fault \in {"none", "take_cols", "try_new"} : Finish(fault)
    \/ Close

SpecSend == JoinerInit /\ [][SendNext]_vars

\* ------------------------------------------------------------- properties
\* the non-null rows of a delivery history, in delivery order
NonNull(deliv) == SelectSeq(deliv, LAMBDA v : v # Null)

\* what final_merge returns for slot i (1-based) of accs
Finalized(i) == final_merge(kind, cols["accs"], <<i - 1>>).list[1]

\* C1: in set mode, a slot of accs that only received partial_update /
\* append_item deliveries finalizes to the distinct non-null values delivered
\* to it, each exactly once.
C1_SetDistinctOnce ==
    kind = "set" =>
        \A i \in DOMAIN hist :
            hist[i].clean =>
                /\ take_values(kind, cols["accs"], i - 1).values.ok
                /\ Range(Finalized(i)) = Range(NonNull(hist[i].deliv))
                /\ Len(Finalized(i)) = Cardinality(Range(Finalized(i)))

\* a set slot that was delivered a null and the same value twice
C1_Witness ==
    /\ kind = "set"
    /\ \E i \in DOMAIN hist :
          /\ hist[i].clean
          /\ Null \in Range(hist[i].deliv)
          /\ Len(NonNull(hist[i].deliv)) > Cardinality(Range(NonNull(hist[i].deliv)))
          /\ Finalized(i) # <<>>

\* C2: in list mode, a slot of accs that only received partial_update /
\* append_item deliveries finalizes to the non-null values delivered to it, in
\* delivery order, duplicates kept.
C2_ListInOrder ==
    kind = "list" =>
        \A i \in DOMAIN hist :
            hist[i].clean =>
                /\ take_values(kind, cols["accs"], i - 1).values.ok
                /\ Finalized(i) = NonNull(hist[i].deliv)

\* a list slot that was delivered a null and the same value twice
C2_Witness ==
    /\ kind = "list"
    /\ \E i \in DOMAIN hist :
          /\ hist[i].clean
          /\ Null \in Range(hist[i].deliv)
          /\ Len(Finalized(i)) > Cardinality(Range(Finalized(i)))

\* C3: the running counter of an AccSetColumn equals the sum of mem_size() over
\* its slots after every resize, append_item, merge_items (both columns) and
\* take_values.
C3_SetMemUsedIsSum ==
    kind = "set" => \A c \in ColNames : Drift(c) = 0

\* C4: the running counter of an AccListColumn equals the sum of mem_size()
\* over its slots after every resize, append_item, merge_items (both columns),
\* load_raw, unfreeze_from_rows and take_values.
C4_ListMemUsedIsSum ==
    kind = "list" => \A c \in ColNames : cols[c].mem_used = MemSum(slots(kind, cols[c]), 1)

\* a record was just loaded over a slot that held values, both list columns
\* hold bytes, and a slot of accs has been through a merge or a load
C4_Witness ==
    /\ kind = "list"
    /\ last.op \in {"load_raw", "unfreeze_from_rows"}
    /\ cols["accs"].mem_used > 0
    /\ cols["merging"].mem_used > 0
    /\ \E i \in DOMAIN hist : ~hist[i].clean

\* two finalized slots hold the same collection: the same set of values, each
\* once, in set mode; the same sequence in list mode
SameValues(a, b) ==
    IF kind = "set"
    THEN /\ Range(a) = Range(b)
         /\ Len(a) = Cardinality(Range(a))
         /\ Len(b) = Cardinality(Range(b))
    ELSE a = b

\* C5: for both column types, the slots read back by unspill from a stream
\* written by spill finalize to what the spilled slots finalize to, slot by slot.
C5_SpillRoundTrip ==
    last.op = "unspill" =>
        /\ last.ok
        /\ \A n \in DOMAIN last.exp :
              SameValues(Values(slots(kind, cols[last.col])[last.idx + n]), last.exp[n])

\* C6: load_raw of a record written by save_raw leaves the slot with the
\* collection of the saved slot, whatever the slot held before.
C6_RawRoundTrip ==
    last.op = "load_raw" =>
        /\ last.ok
        /\ SameValues(Values(slots(kind, cols[last.col])[last.idx + 1]), last.exp[1])

\* a saved record of values was loaded over a slot that held other values
C6_Witness ==
    /\ last.op = "load_raw"
    /\ last.exp[1] # <<>>
    /\ last.pre # <<>>
    /\ Range(last.pre) # Range(last.exp[1])
    /\ Values(slots(kind, cols[last.col])[last.idx + 1]) # <<>>

\* the slots of both columns
AllSlots == slots(kind, cols["accs"]) \o slots(kind, cols["merging"])

\* the slots merge(a, b) can leave in a
Merged(a, b) ==
    IF kind = "set"
    THEN {AccSet_merge(a, b, order).self : order \in merge_orders("set", a, b)}
    ELSE {AccList_merge(a, b).self}

\* C7: merge is associative on the contents of set and list slots and
\* commutative on those of set slots: for slots holding A, B, C the destination
\* after (A merge B) merge C finalizes to what it does after A merge (B merge C),
\* the sequence A then B then C in list mode; in set mode merging B into A and
\* A into B both leave the union of A and B without duplicates.
C7_MergeAssocComm ==
    /\ \A i, j, k \in DOMAIN AllSlots :
          (i # j /\ j # k /\ i # k) =>
             \A ab \in Merged(AllSlots[i], AllSlots[j]) :
                \A bc \in Merged(AllSlots[j], AllSlots[k]) :
                   \A l \in Merged(ab, AllSlots[k]) :
                      \A r \in Merged(AllSlots[i], bc) :
                         /\ SameValues(Values(l), Values(r))
                         /\ kind = "list" =>
                               Values(l) = Values(AllSlots[i]) \o Values(AllSlots[j])
                                           \o Values(AllSlots[k])
    /\ kind = "set" =>
          \A i, j \in DOMAIN AllSlots :
             i # j =>
                \A ab \in Merged(AllSlots[i], AllSlots[j]) :
                   \A ba \in Merged(AllSlots[j], AllSlots[i]) :
                      /\ SameValues(Values(ab), Values(ba))
                      /\ Range(Values(ab)) = Range(Values(AllSlots[i]))
                                             \cup Range(Values(AllSlots[j]))

\* C8: after merge_items the source slot is empty: it finalizes to no values
\* and save_raw writes a zero-length record for it.
C8_MergeSourceDrained ==
    \A i \in DOMAIN hist :
        hist[i].src =>
            /\ Values(slots(kind, cols["accs"])[i]) = <<>>
            /\ save_raw(kind, cols["accs"], i - 1, <<>>) = write_len(0, <<>>)

\* a row of a batch, as take_cols hands it on: its ordinal and its keys
RowsOf(batch) == [n \in DOMAIN batch |-> [idx |-> n - 1, key |-> batch[n]]]

\* the keys of a row are all non-null
AllNonNull(key) == \A n \in DOMAIN key : key[n] # NullKey

\* the probe row matches: its keys are all non-null and equal to a build row's
ProbeMatches(key) == AllNonNull(key) /\ \E m \in DOMAIN map : map[m] = key

\* the build row matches: its key is the all-non-null key of a probed row
BuildMatches(key) ==
    \E k \in DOMAIN batches : \E n \in DOMAIN batches[k] :
        AllNonNull(batches[k][n]) /\ batches[k][n] = key

\* C9: in the semi and anti variants where the probe side is the join side,
\* every join(batch) that returns Ok emits exactly one batch, in input batch
\* order, made of the probe rows in ascending order: for semi the rows whose
\* keys are all non-null and equal to a build row's key, for anti the other
\* rows; finish() emits nothing.
C9_ProbeSideSemiAnti ==
    (P.probe_is_join_side /\ P.mode \in {"Semi", "Anti"}) =>
        /\ Len(sent) = Len(batches)
        /\ \A k \in DOMAIN sent :
              sent[k] = SelectSeq(RowsOf(batches[k]),
                                  LAMBDA row : (P.mode = "Semi") = ProbeMatches(row.key))

\* an anti join on the probe side has finished after two batches with rows of
\* which it emitted some and dropped others, among them a row with a null key
C9_Witness ==
    /\ P.probe_is_join_side
    /\ P.mode = "Anti"
    /\ phase = "finished"
    /\ Len(batches) = MaxBatches
    /\ \E k \in DOMAIN batches :
          /\ sent[k] # <<>>
          /\ Len(sent[k]) < Len(batches[k])
          /\ \E n \in DOMAIN sent[k] : ~AllNonNull(sent[k][n].key)

\* C10: in the semi and anti variants where the build side is the join side,
\* join() emits nothing and finish() emits exactly one batch made of the build
\* rows in ascending order: for semi the rows whose key is the all-non-null key
\* of some probed row, for anti the other rows, each at most once.
C10_BuildSideSemiAnti ==
    (~P.probe_is_join_side /\ P.mode \in {"Semi", "Anti"}) =>
        sent = IF phase = "finished"
               THEN <<SelectSeq(RowsOf(map),
                                LAMBDA row : (P.mode = "Semi") = BuildMatches(row.key))>>
               ELSE <<>>

\* a semi join on the build side has finished after two batches; two build
\* rows share a key that was probed more than once, and both were emitted
C10_Witness ==
    /\ ~P.probe_is_join_side
    /\ P.mode = "Semi"
    /\ phase = "finished"
    /\ Len(map) = 2
    /\ map[1] = map[2]
    /\ Len(batches) = MaxBatches
    /\ \A k \in DOMAIN batches : \E n \in DOMAIN batches[k] : batches[k][n] = map[1]
    /\ Len(sent) = 1
    /\ Len(sent[1]) = 2

\* the joiner state of variant params after join over the batches bs from the
\* k-th on, started in st
RECURSIVE joined_after(_, _, _, _)
joined_after(params, st, bs, k) ==
    IF k > Len(bs) THEN st
    ELSE joined_after(params,
                      join_rows(params, map,
                                [map_joined |-> st.map_joined,
                                 hash_skippable |-> st.hash_skippable,
                                 probed_joined |-> [n \in DOMAIN bs[k] |-> FALSE]],
                                bs[k], 0),
                      bs, k + 1)

\* a new joiner's map_joined and hash_skippable
NewJoiner == [map_joined |-> [n \in DOMAIN map |-> FALSE], hash_skippable |-> {},
              probed_joined |-> <<>>]

\* the batches a run join(b1), ..., join(bn), finish() of variant params sends,
\* on the build side and the batches of this run
Emitted(params) ==
    IF params.probe_is_join_side
    THEN [k \in DOMAIN batches |->
             join_output(params, batches[k],
                         joined_after(params, NewJoiner, <<batches[k]>>, 1).probed_joined)]
    ELSE <<finish_output(params, map,
                         joined_after(params, NewJoiner, batches, 1).map_joined)>>

\* the relations the output rows are taken from: the probed batches, or the build side
OutputRelations == IF P.probe_is_join_side THEN batches ELSE <<map>>

\* the ordinals of the rows of a batch
Ordinals(batch) == {batch[n].idx : n \in DOMAIN batch}

\* C11: for the same build side, batches and probe side, the rows the semi
\* variant emits and the rows the anti variant emits are disjoint and together
\* are all rows of the output relation, each once.
C11_SemiAntiPartition ==
    P.mode \in {"Semi", "Anti"} =>
        LET semi == Emitted([P EXCEPT !.mode = "Semi"])
            anti == Emitted([P EXCEPT !.mode = "Anti"])
        IN /\ phase = "finished" => sent = Emitted(P)
           /\ Len(semi) = Len(OutputRelations)
           /\ Len(anti) = Len(OutputRelations)
           /\ \A k \in DOMAIN OutputRelations :
                 /\ Ordinals(semi[k]) \cap Ordinals(anti[k]) = {}
                 /\ Ordinals(semi[k]) \cup Ordinals(anti[k])
                       = {n - 1 : n \in DOMAIN OutputRelations[k]}
                 /\ Len(semi[k]) + Len(anti[k]) = Len(OutputRelations[k])
                 /\ \A n \in DOMAIN semi[k] :
                       semi[k][n].key = OutputRelations[k][semi[k][n].idx + 1]
                 /\ \A n \in DOMAIN anti[k] :
                       anti[k][n].key = OutputRelations[k][anti[k][n].idx + 1]

\* an anti join on the build side has finished after two batches and emitted
\* some build rows but not all
C11_Witness ==
    /\ ~P.probe_is_join_side
    /\ P.mode = "Anti"
    /\ phase = "finished"
    /\ Len(batches) = MaxBatches
    /\ sent # <<>>
    /\ sent[1] # <<>>
    /\ Len(sent[1]) < Len(map)
    /\ Emitted([P EXCEPT !.mode = "Semi"])[1] # <<>>

\* every row of a relation in its order, with the boolean column given by Test
ExistsRows(rows, Test(_)) ==
    [n \in DOMAIN rows |-> [idx |-> n - 1, key |-> rows[n], exists |-> Test(rows[n])]]

C13_CanEarlyStop ==
    phase = "probing" =>
        /\ Len(map_joined) = Len(map)
        /\ can_early_stop(P, map_joined)
              = (~P.probe_is_join_side /\ \A m \in DOMAIN map : BuildMatches(map[m]))
        /\ can_early_stop(P, map_joined)
              = (~P.probe_is_join_side /\ \A m \in DOMAIN map_joined : map_joined[m])
        /\ P.probe_is_join_side => ~can_early_stop(P, map_joined)

\* a joiner on the build side has matched both of its two different build rows
\* after two batches and may stop early
C13_Witness ==
    /\ phase = "probing"
    /\ ~P.probe_is_join_side
    /\ Len(map) = 2
    /\ map[1] # map[2]
    /\ Len(batches) = MaxBatches
    /\ can_early_stop(P, map_joined)

\* the loop of join with the hash_skippable lookup and insertion removed
RECURSIVE join_rows_noskip(_, _, _, _, _)
join_rows_noskip(params, map_keys, st, probed_batch, row_idx) ==
    IF row_idx >= Len(probed_batch) THEN st
    ELSE LET key == probed_batch[row_idx + 1]
             e == join_entries(params, map_keys,
                               [map_joined |-> st.map_joined,
                                probed_joined |-> st.probed_joined,
                                maybe_joined |-> FALSE],
                               row_idx, key,
                               entry_indices(map_keys, join_create_hashes(key), 1))
             next ==
                IF ~probed_valids(key) THEN st
                ELSE [map_joined |-> e.map_joined,
                      probed_joined |-> e.probed_joined,
                      hash_skippable |-> st.hash_skippable]
         IN join_rows_noskip(params, map_keys, next, probed_batch, row_idx + 1)

\* map_joined of the joiner without hash_skippable after the batches bs from the k-th on
RECURSIVE noskip_after(_, _, _)
noskip_after(st, bs, k) ==
    IF k > Len(bs) THEN st
    ELSE noskip_after(join_rows_noskip(P, map,
                                       [map_joined |-> st.map_joined,
                                        hash_skippable |-> {},
                                        probed_joined |-> [n \in DOMAIN bs[k] |-> FALSE]],
                                       bs[k], 0),
                      bs, k + 1)

\* C14: where the build side is the join side, map_joined after each join()
\* and the batch finish() emits are those of the same joiner run with the
\* hash_skippable lookup and insertion removed.
C14_SkippableChangesNothing ==
    ~P.probe_is_join_side =>
        /\ phase = "probing" =>
              map_joined = noskip_after(NewJoiner, batches, 1).map_joined
        /\ phase = "finished" =>
              sent = <<finish_output(P, map, noskip_after(NewJoiner, batches, 1).map_joined)>>

\* a run on the build side has finished in which a row of the second batch was
\* skipped for its hash although the build side holds rows with that hash
C14_Witness ==
    /\ ~P.probe_is_join_side
    /\ phase = "finished"
    /\ Len(batches) = MaxBatches
    /\ \E n \in DOMAIN batches[2] :
          /\ probed_valids(batches[2][n])
          /\ join_create_hashes(batches[2][n])
                \in joined_after(P, NewJoiner, <<batches[1]>>, 1).hash_skippable
          /\ entry_indices(map, join_create_hashes(batches[2][n]), 1) # <<>>

RECURSIVE Flatten(_)
Flatten(bs) == IF bs = <<>> THEN <<>> ELSE Head(bs) \o Flatten(Tail(bs))

\* the key rows of the join side: all probed rows, or the build rows
JoinSideKeys == IF P.probe_is_join_side THEN Flatten(batches) ELSE map

\* the join-side row has a partner on the other side
HasPartner(key) ==
    IF P.probe_is_join_side THEN ProbeMatches(key) ELSE BuildMatches(key)

\* the number of rows of the relational result of the variant
ResultCardinality ==
    Cardinality({n \in DOMAIN JoinSideKeys :
                    \/ P.mode = "Existence"
                    \/ P.mode = "Semi" /\ HasPartner(JoinSideKeys[n])
                    \/ P.mode = "Anti" /\ ~HasPartner(JoinSideKeys[n])})

C18_DownstreamClosedIsError ==
    consumer = "refused" => phase = "failed"

\* the slots of column c that the last read loaded
LoadedSlots ==
    IF last.op = "load_raw" THEN {last.idx + 1}
    ELSE IF last.op = "unfreeze_from_rows"
    THEN (last.idx + 1)..num_records(kind, cols[last.col])
    ELSE {}

\* C17: a load_raw or unfreeze_from_rows that returns Ok has read well-formed
\* records only, so every slot it loaded decodes, for sets and lists alike;
\* and no final_merge aborts on the bytes of a slot.
C17_MalformedBytesAreErrors ==
    /\ last.ok =>
          \A i \in LoadedSlots :
             into_values(kind, slots(kind, cols[last.col])[i]).ok
    /\ last.op = "final_merge" => last.ok

\* C19: the internal set of an AccSet is Small as long as it holds at most 4
\* elements and Huge once it holds more: it is Huge exactly when its size
\* exceeds 4.
C19_HugeOnlyAboveFour ==
    kind = "set" =>
        \A c \in ColNames : \A i \in DOMAIN cols[c].set :
            cols[c].set[i].set.huge <=> InternalSet_len(cols[c].set[i].set) > SmallLen

\* C20: unspill(n, r) on a stream holding the n records spill wrote returns
\* Ok, having extended the column by n slots and read exactly the n records, the
\* k-th record into slot old_len + k.
C20_UnspillLoadsEachRecord ==
    last.op = "unspill" =>
        /\ last.ok
        /\ num_records(kind, cols[last.col]) = last.idx + Len(last.exp)
        /\ rpos = Len(w)
        /\ \A k \in 0..(Len(last.exp) - 1) :
              SameValues(Values(slots(kind, cols[last.col])[last.idx + k + 1]),
                         last.exp[k + 1])

\* what unfreeze_from_rows leaves: one new slot per row, holding the values of
\* the row's record, and each offset just past the record it started at
UnfrozenAsFrozen ==
    last.op = "unfreeze_from_rows" =>
        /\ last.ok
        /\ num_records(kind, cols[last.col]) = last.idx + Len(last.rows)
        /\ \A k \in DOMAIN last.rows :
              LET row == last.rows[k] IN
              /\ SameValues(Values(slots(kind, cols[last.col])[last.idx + k]),
                            last.exp[k])
              /\ last.offsets[k] = row.offset + 1 + row.bytes[row.offset + 1]
              /\ last.offsets[k] = Len(row.bytes)

\* the slots below old_len are the same before and after unfreeze_from_rows
SlotsBelowKept ==
    last'.op = "unfreeze_from_rows" =>
        \A i \in 1..last'.idx :
            slots(kind, cols'[last'.col])[i] = slots(kind, cols[last'.col])[i]

\* C21: unfreeze_from_rows(array, offsets) extends the column by array.len()
\* slots, loads the record at offsets[k] of array[k] into slot old_len + k and
\* moves offsets[k] just past that record, leaving the slots below old_len as
\* they were; rows written by freeze_to_rows are read back to the values of
\* the slots they were written from.
C21_UnfreezeFromRows == []UnfrozenAsFrozen /\ [][SlotsBelowKept]_vars

\* a frozen slot holding a value was read back, from behind a prefix, into a
\* column that already held a slot with a value
C21_Witness ==
    /\ last.op = "unfreeze_from_rows"
    /\ last.ok
    /\ last.idx = 1
    /\ last.exp[1] # <<>>
    /\ last.rows[1].offset > 0
    /\ Values(slots(kind, cols[last.col])[1]) # <<>>
    /\ Values(slots(kind, cols[last.col])[2]) # <<>>

\* the pairs of an AccSet tile its raw buffer: every pair lies within raw, the
\* slices have pairwise distinct contents, every byte of raw belongs to exactly
\* one slice, and raw decodes to as many values as the set has pairs
Tiled(a) ==
    LET items == a.set.items IN
    /\ \A i \in DOMAIN items : items[i][1] + items[i][2] <= Len(a.list.raw)
    /\ \A i, j \in DOMAIN items :
          i # j => AccList_ref_raw(a.list, items[i]) # AccList_ref_raw(a.list, items[j])
    /\ \A p \in 1..Len(a.list.raw) :
          Cardinality({i \in DOMAIN items :
                          items[i][1] < p /\ p <= items[i][1] + items[i][2]}) = 1
    /\ Len(AccSet_into_values(a).values) = InternalSet_len(a.set)

\* C22: in every reachable state the pairs of every AccSet slot tile the
\* slot's raw buffer exactly.
C22_PairsTileRaw ==
    kind = "set" =>
        \A c \in ColNames : \A i \in DOMAIN cols[c].set : Tiled(cols[c].set[i])

\* a step of join(): the bitmap is still there after it (finish() takes it)
JoinStep == phase = "probing" /\ Len(map_joined') = Len(map)

\* over a step of join(): no bit goes back to 0, a bit goes to 1 only for a
\* build row whose key is the all-non-null key of a row of the batch just
\* probed, no bit is set when the probe is the join side, and can_early_stop()
\* stays true once it is
MapJoinedGrows ==
    JoinStep =>
        /\ \A m \in DOMAIN map : map_joined[m] => map_joined'[m]
        /\ \A m \in DOMAIN map :
              map_joined'[m] /\ ~map_joined[m] =>
                 /\ batches' # batches
                 /\ \E n \in DOMAIN batches'[Len(batches')] :
                       /\ AllNonNull(batches'[Len(batches')][n])
                       /\ batches'[Len(batches')][n] = map[m]
        /\ P.probe_is_join_side => \A m \in DOMAIN map : ~map_joined'[m]
        /\ can_early_stop(P, map_joined) => can_early_stop(P, map_joined')

\* C23: map_joined accumulates monotonically while probing: over any join() a
\* bit only goes from 0 to 1, only for a build row whose key equals a probe
\* row with non-null keys, never when the probe is the join side; once
\* can_early_stop() is true it is true after every later join().
C23_MapJoinedMonotone == [][MapJoinedGrows]_vars

\* two batches were probed, each set the bit of a build row the other did not
\* match, and can_early_stop() is true
C23_Witness ==
    /\ phase = "probing"
    /\ ~P.probe_is_join_side
    /\ Len(batches) = 2
    /\ Len(map) = 2
    /\ map_joined = <<TRUE, TRUE>>
    /\ \E n \in DOMAIN batches[1] : batches[1][n] = map[1]
    /\ \A n \in DOMAIN batches[1] : batches[1][n] # map[2]
    /\ \E n \in DOMAIN batches[2] : batches[2][n] = map[2]
    /\ can_early_stop(P, map_joined)

\* C24: no update of an AccSetColumn counter goes below zero: the counters are
\* never negative, and for any two slots of the two columns merge_items leaves
\* the destination slot at least as large as it was and subtracts from the
\* source column no more than its counter holds.
C24_NoCounterUnderflow ==
    kind = "set" =>
        /\ \A c \in ColNames : cols[c].mem_used >= 0
        /\ \A c \in ColNames : \A o \in ColNames \ {c} :
              \A i \in DOMAIN cols[c].set : \A j \in DOMAIN cols[o].set :
                 \A order \in merge_orders(kind, cols[c].set[i], cols[o].set[j]) :
                    /\ AccSet_mem_size(AccSet_merge(cols[c].set[i], cols[o].set[j],
                                                    order).self)
                          >= AccSet_mem_size(cols[c].set[i])
                    /\ cols[o].mem_used >= AccSet_mem_size(cols[o].set[j])

\* a step of join() that returns an error
JoinFails ==
    /\ phase' = "failed"
    /\ \E probed_batch \in SeqsUpTo(KeyRows, MaxRows) :
          \E fault \in PrologueFaults \cup {"take_cols", "try_new"} :
             Join(probed_batch, fault)

\* a failed join() leaves the joiner as it was
FailedJoinKeepsState ==
    JoinFails => UNCHANGED <<map_joined, hash_skippable, output_rows, sent>>

\* C25: if join() returns an error, map_joined, hash_skippable and
\* num_output_rows() have the values they had before the call and no batch
\* was sent.
C25_FailedJoinKeepsState == [][FailedJoinKeepsState]_vars

\* a join() failed on a joiner that had joined build rows and marked a hash
\* skippable, and both are still there
C25_Witness ==
    /\ phase = "failed"
    /\ ~P.probe_is_join_side
    /\ batches # <<>>
    /\ \E m \in DOMAIN map_joined : map_joined[m]
    /\ hash_skippable # {}

\* a step that writes records of the column to the stream
WritesRecords == w' # w

\* over a write of records the slots hold the same values, have the same
\* mem_size() and the counters are the same: the columns are as they were
WriteOnlyReads ==
    WritesRecords =>
        /\ cols' = cols
        /\ \A c \in ColNames :
              /\ cols'[c].mem_used = cols[c].mem_used
              /\ \A i \in DOMAIN slots(kind, cols[c]) :
                    into_values(kind, slots(kind, cols'[c])[i])
                       = into_values(kind, slots(kind, cols[c])[i])

\* C26: spill (save_raw of each selected slot) only reads the column: after it
\* every slot holds the values it held and mem_used() is what it was, so the
\* spilled groups' memory stays in the column's accounting.
C26_SpillOnlyReads == [][WriteOnlyReads]_vars

\* a slot holding values was spilled and is still in the column with its
\* values, and the counter still counts it
C26_Witness ==
    /\ saved # <<>>
    /\ saved[1].values # <<>>
    /\ rpos = 0
    /\ last = NoLast
    /\ cols["accs"].mem_used > 0
    /\ \E i \in DOMAIN slots(kind, cols["accs"]) :
          /\ Values(slots(kind, cols["accs"])[i]) = saved[1].values
          /\ cols["accs"].mem_used >= mem_size(kind, slots(kind, cols["accs"])[i])

====
